---- MODULE Spec2Model ----
(***************************************************************************)
(* Model of bendordslaw.py: the BenfordsLaw class (leading-digit           *)
(* extraction in pattern and column mode, ratio computation, chi-squared   *)
(* verdict) and the two drivers run_safe_algorithm / run_risky_algorithm.  *)
(*                                                                         *)
(* A text line is a sequence of one-character strings that ends with the   *)
(* newline character, as Python's file iteration yields it.  A ratio       *)
(* count / length is kept as the reduced fraction [num, den]: the float    *)
(* Python computes is a function of that rational.  The p-value of         *)
(* scipy's chi2_contingency is an input, in thousandths.                   *)
(***************************************************************************)
EXTENDS Integers, Sequences, FiniteSets, TLC

\* ------------------------------------------------------------------ bounds
\* Largest number of lines of the input file.
MaxLines == 2
\* Largest number of method calls a client makes on one BenfordsLaw object.
MaxCalls == 4
\* Largest zero-indexed column a caller asks for.
MaxColumn == 1

\* ------------------------------------------------------------- characters
Digits == {"0", "1", "2", "3", "4", "5", "6", "7", "8", "9"}

\* re: \d on the characters of the model
IsDigit(c) == c \in Digits

\* re: \s on the characters of the model
IsSpace(c) == c \in {" ", "\t", "\n"}

\* int(c) for a one-character string c that is a decimal digit
DigitValue(c) ==
    CASE c = "0" -> 0 [] c = "1" -> 1 [] c = "2" -> 2 [] c = "3" -> 3
      [] c = "4" -> 4 [] c = "5" -> 5 [] c = "6" -> 6 [] c = "7" -> 7
      [] c = "8" -> 8 [] c = "9" -> 9

\* The lines an input file is made of.
Lines ==
    { <<"a", "\t", "b", "\n">>,
      <<"1", "2", "\n">>,
      <<"x", " ", "4", "5", "\n">>,
      <<"0", ".", "5", "\n">>,
      <<"7", "\t", "\t", "3", "0", "\n">> }

\* The files open(self.file_path, 'r') can read: up to MaxLines lines.
Files == UNION { [1..n -> Lines] : n \in 0..MaxLines }

\* p-values chi2_contingency can return, in thousandths.
PValues == {49, 50, 51, 1000}

\* alpha = 0.05, in thousandths
Alpha == 50

\* ------------------------------------------------------ pattern extraction
\* The end of the maximal run of digits that starts at position i.
RECURSIVE RunEnd(_, _)
RunEnd(line, i) ==
    IF i < Len(line) /\ IsDigit(line[i + 1]) THEN RunEnd(line, i + 1) ELSE i

\* re.search("[\d]+", line) scanning from position i: the matched text, or
\* <<>> for None (a match is never empty).
RECURSIVE SearchFrom(_, _)
SearchFrom(line, i) ==
    IF i > Len(line) THEN <<>>
    ELSE IF IsDigit(line[i]) THEN SubSeq(line, i, RunEnd(line, i))
    ELSE SearchFrom(line, i + 1)

re_search(line) == SearchFrom(line, 1)

\* next(f) when ignore_first_line, then the lines "for line in f" yields.
Retained(f, ignore_first_line) ==
    IF ignore_first_line /\ f # <<>> THEN Tail(f) ELSE f

\* The loop of lines 49-52: all_numbers_list, or the failure of .group() on
\* None at the first line without a digit.
RECURSIVE CollectNumbers(_, _)
CollectNumbers(lines, acc) ==
    IF lines = <<>> THEN [exc |-> "none", all_numbers_list |-> acc]
    ELSE IF re_search(Head(lines)) = <<>>
         THEN [exc |-> "AttributeError", all_numbers_list |-> acc]
         ELSE CollectNumbers(Tail(lines), Append(acc, re_search(Head(lines))))

\* FirstNumbers with data[-1] read in place of data[0].
RECURSIVE FirstNumbersLastChar(_)
FirstNumbersLastChar(all_numbers_list) ==
    IF all_numbers_list = <<>> THEN <<>>
    ELSE <<DigitValue(Head(all_numbers_list)[Len(Head(all_numbers_list))])>>
         \o FirstNumbersLastChar(Tail(all_numbers_list))

\* The loop of lines 53-55: int(data[0]) of every collected number.
RECURSIVE FirstNumbers(_)
FirstNumbers(all_numbers_list) ==
    IF all_numbers_list = <<>> THEN <<>>
    ELSE <<DigitValue(Head(all_numbers_list)[1])>>
         \o FirstNumbers(Tail(all_numbers_list))

\* RegexOutcome with the digits appended to self.first_number_list inside
\* the reading loop, so that those of the lines before a failure stay.
RegexOutcomeEager(fnl, f, ignore_first_line) ==
    IF ignore_first_line /\ f = <<>>
    THEN [exc |-> "StopIteration", fnl |-> fnl, ret |-> "raise"]
    ELSE LET c == CollectNumbers(Retained(f, ignore_first_line), <<>>)
         IN  [exc |-> c.exc,
              fnl |-> fnl \o FirstNumbers(c.all_numbers_list),
              ret |-> IF c.exc = "none" THEN "True" ELSE "raise"]

\* get_numbers_from_data_regex on an object whose first_number_list is fnl:
\* the exception it ends with, the list afterwards and the value returned.
RegexOutcome(fnl, f, ignore_first_line) ==
    IF ignore_first_line /\ f = <<>>
    THEN [exc |-> "StopIteration", fnl |-> fnl, ret |-> "raise"]
    ELSE LET c == CollectNumbers(Retained(f, ignore_first_line), <<>>)
         IN  IF c.exc # "none"
             THEN [exc |-> c.exc, fnl |-> fnl, ret |-> "raise"]
             ELSE [exc |-> "none",
                   fnl |-> fnl \o FirstNumbers(c.all_numbers_list),
                   ret |-> "True"]

\* ------------------------------------------------------- column extraction
\* The end of the run of tab characters that starts at position i.
RECURSIVE TabRunEnd(_, _)
TabRunEnd(line, i) ==
    IF i < Len(line) /\ line[i + 1] = "\t" THEN TabRunEnd(line, i + 1) ELSE i

\* The end of the run of whitespace that starts at position i.
RECURSIVE SpaceRunEnd(_, _)
SpaceRunEnd(line, i) ==
    IF i < Len(line) /\ IsSpace(line[i + 1]) THEN SpaceRunEnd(line, i + 1) ELSE i

\* re.sub("\t+|\s{2,}|\s(?=\d)", "~~~", line) from position i.  The
\* alternatives are tried in order at each position and each is greedy.  The
\* replacement is kept as the one element "~~~" (no line holds a tilde).
RECURSIVE SubFrom(_, _)
SubFrom(line, i) ==
    IF i > Len(line) THEN <<>>
    ELSE IF line[i] = "\t"
         THEN <<"~~~">> \o SubFrom(line, TabRunEnd(line, i) + 1)
    ELSE IF IsSpace(line[i]) /\ i < Len(line) /\ IsSpace(line[i + 1])
         THEN <<"~~~">> \o SubFrom(line, SpaceRunEnd(line, i) + 1)
    ELSE IF IsSpace(line[i]) /\ i < Len(line) /\ IsDigit(line[i + 1])
         THEN <<"~~~">> \o SubFrom(line, i + 1)
    ELSE <<line[i]>> \o SubFrom(line, i + 1)

re_sub(line) == SubFrom(line, 1)

\* re.split("~~~", s): cur is the column being read, cols those before it.
RECURSIVE SplitFrom(_, _, _)
SplitFrom(s, cur, cols) ==
    IF s = <<>> THEN Append(cols, cur)
    ELSE IF Head(s) = "~~~" THEN SplitFrom(Tail(s), <<>>, Append(cols, cur))
    ELSE SplitFrom(Tail(s), Append(cur, Head(s)), cols)

re_split(s) == SplitFrom(s, <<>>, <<>>)

\* Lines 82-83 for one line: its columns.
Columns(line) == re_split(re_sub(line))

\* The body of the try statement, lines 74-83: the exception it raises, the
\* counter i and data_list.  No statement of it raises InvalidLine.
TsvTry(f, ignore_first_line) ==
    IF ignore_first_line /\ f = <<>>
    THEN [exc |-> "StopIteration", i |-> 0, data_list |-> <<>>]
    ELSE LET lines == Retained(f, ignore_first_line)
         IN  [exc |-> "none",
              i |-> Len(f),
              data_list |-> [k \in 1..Len(lines) |-> Columns(lines[k])]]

\* The loop of lines 86-88, which appends to self.first_number_list as it
\* goes: column[column_to_collect] and [0] raise IndexError, int() raises
\* ValueError.
RECURSIVE TsvCollect(_, _, _)
TsvCollect(fnl, data_list, column_to_collect) ==
    IF data_list = <<>> THEN [exc |-> "none", fnl |-> fnl]
    ELSE LET column == Head(data_list)
         IN  IF column_to_collect + 1 > Len(column)
             THEN [exc |-> "IndexError", fnl |-> fnl]
             ELSE IF column[column_to_collect + 1] = <<>>
             THEN [exc |-> "IndexError", fnl |-> fnl]
             ELSE IF ~IsDigit(column[column_to_collect + 1][1])
             THEN [exc |-> "ValueError", fnl |-> fnl]
             ELSE TsvCollect(
                      Append(fnl, DigitValue(column[column_to_collect + 1][1])),
                      Tail(data_list), column_to_collect)

\* get_numbers_from_data_tsv: the collecting loop and "return True" are the
\* body of "except InvalidLine", so they run only when the try body raised
\* InvalidLine; otherwise the method falls off its end and returns None.
TsvOutcome(fnl, out, f, column_to_collect, ignore_first_line) ==
    LET t == TsvTry(f, ignore_first_line)
    IN  IF t.exc = "InvalidLine"
        THEN LET h == TsvCollect(fnl, t.data_list, column_to_collect)
             IN  [exc |-> h.exc, fnl |-> h.fnl, printed |-> Append(out, t.i),
                  ret |-> IF h.exc = "none" THEN "True" ELSE "raise"]
        ELSE IF t.exc = "none"
        THEN [exc |-> "none", fnl |-> fnl, printed |-> out, ret |-> "None"]
        ELSE [exc |-> t.exc, fnl |-> fnl, printed |-> out, ret |-> "raise"]

\* ------------------------------------------------------------------ ratios
\* Counter(self.first_number_list)[d]
RECURSIVE Counter(_, _)
Counter(fnl, d) ==
    IF fnl = <<>> THEN 0
    ELSE (IF Head(fnl) = d THEN 1 ELSE 0) + Counter(Tail(fnl), d)

RECURSIVE GCD(_, _)
GCD(a, b) == IF b = 0 THEN a ELSE GCD(b, a % b)

\* The float n / d, as the reduced fraction (d > 0).
Ratio(n, d) == [num |-> n \div GCD(n, d), den |-> d \div GCD(n, d)]

\* DataLength counting only the digits that get a ratio of their own.
DataLengthNonZero(fnl) == Cardinality({k \in 1..Len(fnl) : fnl[k] # 0})

\* The denominator of line 99: len(self.first_number_list).
DataLength(fnl) == Len(fnl)

\* get_ratios: division by zero in the first iteration when the list is
\* empty, otherwise one ratio appended for each of 1..9.
RatiosOutcome(fnl, ratios) ==
    IF DataLength(fnl) = 0
    THEN [exc |-> "ZeroDivisionError", observed_ratios |-> ratios, ret |-> "raise"]
    ELSE [exc |-> "none",
          observed_ratios |->
              ratios \o [d \in 1..9 |-> Ratio(Counter(fnl, d), DataLength(fnl))],
          ret |-> "True"]

\* ------------------------------------------------------- chi-squared test
\* chi2_contingency([observed_ratios, [EXPECTED_RATIO] * 9]) raises when the
\* two rows differ in length and when a computed expected frequency is zero,
\* which here is the observed row summing to zero.
Chi2Raises(ratios) ==
    \/ Len(ratios) # 9
    \/ \A k \in 1..Len(ratios) : ratios[k].num = 0

\* Verdict with the comparison of line 139 made strict.
VerdictStrict(pv) == IF Alpha > pv THEN "False" ELSE "True"

\* Lines 139-142: the value returned for p-value pv.
Verdict(pv) == IF Alpha >= pv THEN "False" ELSE "True"

\* ----------------------------------------------------------------- drivers
\* The method calls of run_safe_algorithm, in order (lines 250-253).
run_safe_algorithm ==
    << "get_numbers_from_data_regex", "get_ratios", "plot_data",
       "is_dataset_benfordian_chi_squared_accept_null" >>

\* The method calls of run_risky_algorithm, in order (lines 225-228).
run_risky_algorithm ==
    << "get_numbers_from_data_tsv", "get_ratios", "plot_data",
       "is_dataset_benfordian_chi_squared_accept_null" >>

Statements(c) ==
    IF c = "run_safe_algorithm" THEN run_safe_algorithm ELSE run_risky_algorithm

VARIABLES file, caller, first_number_list, observed_ratios, exc, ret,
          last, ncalls, p, printed, announced

vars == <<file, caller, first_number_list, observed_ratios, exc, ret,
          last, ncalls, p, printed, announced>>

Init ==
    /\ file \in Files
    /\ caller \in {"run_safe_algorithm", "run_risky_algorithm", "client"}
    /\ first_number_list = <<>>
    /\ observed_ratios = <<>>
    /\ exc = "none"
    /\ ret = "-"
    /\ last = [op |-> "__init__", ignore_first_line |-> FALSE, column |-> 0]
    /\ ncalls = 0
    /\ p = -1
    /\ printed = <<>>
    /\ announced = "-"

\* An uncaught exception ends the program.  A driver makes its calls in
\* order; a client makes any call, up to MaxCalls of them.
MayCall(op) ==
    /\ exc = "none"
    /\ IF caller = "client"
       THEN ncalls < MaxCalls
       ELSE /\ ncalls < Len(Statements(caller))
            /\ Statements(caller)[ncalls + 1] = op

\* The call just made and its arguments.  p is the local of line 137: any
\* other call leaves none behind.
Called(op, ignore_first_line, column) ==
    /\ last' = [op |-> op, ignore_first_line |-> ignore_first_line,
                column |-> column]
    /\ ncalls' = ncalls + 1
    /\ op # "is_dataset_benfordian_chi_squared_accept_null" => p' = -1

get_numbers_from_data_regex ==
    /\ MayCall("get_numbers_from_data_regex")
    /\ \E ignore_first_line \in BOOLEAN :
         LET o == RegexOutcome(first_number_list, file, ignore_first_line)
         IN  /\ first_number_list' = o.fnl
             /\ exc' = o.exc
             /\ ret' = o.ret
             /\ Called("get_numbers_from_data_regex", ignore_first_line, 0)
    /\ UNCHANGED <<file, caller, observed_ratios, printed, announced>>

get_numbers_from_data_tsv ==
    /\ MayCall("get_numbers_from_data_tsv")
    /\ \E ignore_first_line \in BOOLEAN, column_to_collect \in 0..MaxColumn :
         LET o == TsvOutcome(first_number_list, printed, file,
                             column_to_collect, ignore_first_line)
         IN  /\ first_number_list' = o.fnl
             /\ printed' = o.printed
             /\ exc' = o.exc
             /\ ret' = o.ret
             /\ Called("get_numbers_from_data_tsv", ignore_first_line,
                       column_to_collect)
    /\ UNCHANGED <<file, caller, observed_ratios, announced>>

get_ratios ==
    /\ MayCall("get_ratios")
    /\ LET o == RatiosOutcome(first_number_list, observed_ratios)
       IN  /\ observed_ratios' = o.observed_ratios
           /\ exc' = o.exc
           /\ ret' = o.ret
    /\ Called("get_ratios", FALSE, 0)
    /\ UNCHANGED <<file, caller, first_number_list, printed, announced>>

\* plt.bar(index, observed_sizes, ...) with index = np.arange(9) raises when
\* observed_sizes does not hold 9 values; the chart itself is not state of
\* the object.
plot_data ==
    /\ MayCall("plot_data")
    /\ IF Len(observed_ratios) = 9
       THEN exc' = "none" /\ ret' = "True"
       ELSE exc' = "ValueError" /\ ret' = "raise"
    /\ Called("plot_data", FALSE, 0)
    /\ UNCHANGED <<file, caller, first_number_list, observed_ratios, printed,
                   announced>>

is_dataset_benfordian_chi_squared_accept_null ==
    /\ MayCall("is_dataset_benfordian_chi_squared_accept_null")
    /\ IF Chi2Raises(observed_ratios)
       THEN p' = -1 /\ exc' = "ValueError" /\ ret' = "raise"
       ELSE \E pv \in PValues :
              p' = pv /\ exc' = "none" /\ ret' = Verdict(pv)
    /\ Called("is_dataset_benfordian_chi_squared_accept_null", FALSE, 0)
    /\ UNCHANGED <<file, caller, first_number_list, observed_ratios, printed,
                   announced>>

\* Lines 229 and 254: the driver announces the verdict it was returned.
do_chi_squared_announcement ==
    /\ caller # "client"
    /\ exc = "none"
    /\ ncalls = Len(Statements(caller))
    /\ announced = "-"
    /\ announced' = IF ret = "True" THEN "evidence" ELSE "no evidence"
    /\ UNCHANGED <<file, caller, first_number_list, observed_ratios, exc, ret,
                   last, ncalls, p, printed>>

Next ==
    \/ get_numbers_from_data_regex
    \/ get_numbers_from_data_tsv
    \/ get_ratios
    \/ plot_data
    \/ is_dataset_benfordian_chi_squared_accept_null
    \/ do_chi_squared_announcement

Spec == Init /\ [][Next]_vars

\* ================================================================== claims
HasDigit(line) == \E i \in 1..Len(line) : IsDigit(line[i])

\* The position of the first decimal digit of a line that has one.
FirstDigitPos(line) ==
    CHOOSE i \in 1..Len(line) :
        IsDigit(line[i]) /\ \A j \in 1..(i - 1) : ~IsDigit(line[j])

\* All lines of the file, minus line 1 when the header is skipped.
RetainedLines(skip) ==
    IF skip THEN [k \in 1..(Len(file) - 1) |-> file[k + 1]] ELSE file

Occurrences(d) == Cardinality({k \in 1..Len(first_number_list) : first_number_list[k] = d})

ExtractionOps == {"get_numbers_from_data_regex", "get_numbers_from_data_tsv"}

\* The step is a call of method op.
IsCall(op) == ncalls' = ncalls + 1 /\ last'.op = op

\* C1: after get_numbers_from_data_regex on a fresh object, for a file whose
\* retained lines all hold a digit, first_number_list has one element per
\* retained line, in file order, and element k is the first character of the
\* first run of digits of the k-th retained line.
C1_PatternExtraction ==
    LET R == RetainedLines(last.ignore_first_line)
    IN  ( /\ ncalls = 1
          /\ last.op = "get_numbers_from_data_regex"
          /\ \A k \in 1..Len(R) : HasDigit(R[k]) )
        => /\ Len(first_number_list) = Len(R)
           /\ \A k \in 1..Len(R) :
                first_number_list[k] = DigitValue(R[k][FirstDigitPos(R[k])])

\* C1 witness: a header without digits is skipped and the data line's number,
\* which has several digits and does not start the line, gives its first digit.
C1_Witness ==
    /\ ncalls = 1
    /\ last.op = "get_numbers_from_data_regex"
    /\ last.ignore_first_line
    /\ exc = "none"
    /\ Len(file) = 2
    /\ ~HasDigit(file[1])
    /\ HasDigit(file[2])
    /\ FirstDigitPos(file[2]) > 1
    /\ IsDigit(file[2][FirstDigitPos(file[2]) + 1])
    /\ first_number_list = <<DigitValue(file[2][FirstDigitPos(file[2])])>>

\* The nine ratios get_ratios appended last, each times the list's length,
\* add up to total (all denominators divide the length).
RECURSIVE SumOfLastNine(_)
SumOfLastNine(d) ==
    IF d = 0 THEN 0
    ELSE LET r == observed_ratios[Len(observed_ratios) - 9 + d]
         IN  r.num * (Len(first_number_list) \div r.den) + SumOfLastNine(d - 1)

\* C2 (as stated): the nine entries get_ratios appends for a non-empty
\* sequence sum to 1, i.e. the counts of 1..9 add up to the list's length.
C2_RatiosSumToOne ==
    (last.op = "get_ratios" /\ exc = "none" /\ first_number_list # <<>>)
    => SumOfLastNine(9) = Len(first_number_list)

\* C3 (as stated): every element of first_number_list is in 1..9.
C3_DigitsNonZero ==
    \A k \in 1..Len(first_number_list) : first_number_list[k] \in 1..9

HasTab(line) == \E i \in 1..Len(line) : line[i] = "\t"

\* C4 (as stated): get_numbers_from_data_tsv on a fresh object, on a file of
\* tab-separated lines with a header, the header skipped and the column
\* present in every row and numeric in every data row: first_number_list ends
\* with one element per data line.
C4_ColumnExtractionLength ==
    ( /\ ncalls = 1
      /\ last.op = "get_numbers_from_data_tsv"
      /\ last.ignore_first_line
      /\ file # <<>>
      /\ \A k \in 1..Len(file) :
           HasTab(file[k]) /\ Len(Columns(file[k])) > last.column
      /\ \A k \in 2..Len(file) :
           /\ Columns(file[k])[last.column + 1] # <<>>
           /\ IsDigit(Columns(file[k])[last.column + 1][1]) )
    => /\ exc = "none"
       /\ Len(first_number_list) = Len(file) - 1

\* The retained rows, by 1-based line number, with too few columns.
ShortRows ==
    { k \in 1..Len(file) :
        /\ (last.ignore_first_line => k > 1)
        /\ Len(Columns(file[k])) <= last.column }

\* C5 (as stated): get_numbers_from_data_tsv on a file with a row that has too
\* few columns reports the 1-based line number of the first such row and
\* keeps no digits.
C5_ShortRowReported ==
    ( /\ ncalls = 1
      /\ last.op = "get_numbers_from_data_tsv"
      /\ ShortRows # {} )
    => /\ printed = << CHOOSE k \in ShortRows : \A j \in ShortRows : k <= j >>
       /\ first_number_list = <<>>

\* C6 (as stated): on an empty file either extraction completes with an empty
\* first_number_list, whatever the header flag, and the get_ratios call after
\* it fails with a division error and leaves observed_ratios empty.
C6_EmptyFile ==
    /\ (file = <<>> /\ ncalls = 1 /\ last.op \in ExtractionOps)
       => (exc = "none" /\ first_number_list = <<>>)
    /\ (file = <<>> /\ ncalls = 2 /\ last.op = "get_ratios")
       => (exc = "ZeroDivisionError" /\ observed_ratios = <<>>)

TestReturned ==
    last.op = "is_dataset_benfordian_chi_squared_accept_null" /\ exc = "none"

\* C7 (as stated): the test returns true exactly when p >= alpha and false
\* exactly when p < alpha.
C7_VerdictAtLeastAlpha ==
    TestReturned => /\ (ret = "True") <=> (p >= Alpha)
                    /\ (ret = "False") <=> (p < Alpha)

\* C7 (amended): the test returns true exactly when p > alpha and false
\* exactly when p <= alpha, p = alpha included.
C7_VerdictAboveAlpha ==
    TestReturned => /\ (ret = "True") <=> (p > Alpha)
                    /\ (ret = "False") <=> (p <= Alpha)

\* C7 witness: the test returned for a p-value equal to alpha.
C7_Witness == TestReturned /\ p = Alpha /\ ret = "False"

\* C8 (as stated): when an object that already holds the nine ratios of a run
\* has run the extraction again on the same file, get_ratios leaves
\* observed_ratios as the first run made it.
C8_SecondRunIdentical ==
    [][ ( /\ Len(observed_ratios) = 9
          /\ last.op \in ExtractionOps
          /\ exc = "none"
          /\ IsCall("get_ratios")
          /\ exc' = "none" )
        => observed_ratios' = observed_ratios ]_vars

\* C9: get_numbers_from_data_regex on a file with a retained line without a
\* digit raises and leaves first_number_list as it was before the call; and
\* once it has raised in run_safe_algorithm, nothing more is done.
C9_NoDigitLineAborts ==
    [][ /\ ( /\ IsCall("get_numbers_from_data_regex")
             /\ \E k \in 1..Len(RetainedLines(last'.ignore_first_line)) :
                  ~HasDigit(RetainedLines(last'.ignore_first_line)[k]) )
           => /\ exc' = "AttributeError"
              /\ ret' = "raise"
              /\ first_number_list' = first_number_list
        /\ (caller = "run_safe_algorithm" /\ exc = "AttributeError")
           => vars' = vars ]_vars

\* C9 witness: run_safe_algorithm's extraction raised at a line without a
\* digit that follows a line with one.
C9_Witness ==
    /\ caller = "run_safe_algorithm"
    /\ last.op = "get_numbers_from_data_regex"
    /\ ~last.ignore_first_line
    /\ exc = "AttributeError"
    /\ Len(file) = 2
    /\ HasDigit(file[1])
    /\ ~HasDigit(file[2])
    /\ first_number_list = <<>>
    /\ observed_ratios = <<>>

\* C10: get_ratios on a non-empty first_number_list appends exactly 9 entries,
\* the d-th equal to (occurrences of d) / (length of the whole list, zeros
\* included), each in [0,1].
C10_RatiosAppended ==
    [][ (IsCall("get_ratios") /\ first_number_list # <<>>)
        => /\ exc' = "none"
           /\ Len(observed_ratios') = Len(observed_ratios) + 9
           /\ SubSeq(observed_ratios', 1, Len(observed_ratios)) = observed_ratios
           /\ \A d \in 1..9 :
                LET r == observed_ratios'[Len(observed_ratios) + d]
                IN  /\ r.den > 0
                    /\ r.num * Len(first_number_list) = Occurrences(d) * r.den
                    /\ 0 <= r.num
                    /\ r.num <= r.den ]_vars

\* C10 witness: ratios were computed for a list holding a 0 and another digit.
C10_Witness ==
    /\ last.op = "get_ratios"
    /\ exc = "none"
    /\ Len(observed_ratios) = 9
    /\ Occurrences(0) > 0
    /\ \E d \in 1..9 : Occurrences(d) > 0 /\ observed_ratios[d].den > 1
====
